---- MODULE Spec2Model ----
(***************************************************************************)
(* The two command-line front-ends of the repository, treasureisland.py    *)
(* and wargames.py: a session loop that keeps a transcript of messages,    *)
(* calls a remote completion service, renders the reply and reads the      *)
(* next user action.                                                       *)
(*                                                                         *)
(* Texts are sequences of one-character strings, so that strip, lower,     *)
(* startswith, "in" and slicing are computed as Python computes them.      *)
(* The wording of the prompts (system instructions, seed messages) is      *)
(* cosmetic: each prompt is a short text of its own.  The two code points  *)
(* of the warning sign are the characters "U+26A0" and "U+FE0F".           *)
(***************************************************************************)
EXTENDS Integers, Sequences, FiniteSets, TLC

VARIABLES
    game,         \* which front-end runs: "treasureisland" or "wargames"
    api_key,      \* whether OPENAI_API_KEY is set in the environment
    pc,           \* position of main: start, scenario, loop, request, returned, prompt, done
    messages,     \* the stored transcript (messages / game_state.messages)
    turns,        \* game_stats.turns / game_state.turn_number
    sent,         \* the argument of the running get_ai_response invocation
    attempt,      \* wargames: the loop variable of get_ai_response
    outcomes,     \* outcomes of the remote call attempts of this invocation
    waits,        \* the asyncio.sleep durations of this invocation, in order
    ai_response,  \* the value get_ai_response returned last
    output,       \* the last thing printed
    exit,         \* how the process ended: none, returned, sys_exit_1, uncaught_*
    faults        \* number of input() calls that raised EOFError so far

vars == << game, api_key, pc, messages, turns, sent, attempt, outcomes, waits,
           ai_response, output, exit, faults >>

----------------------------------------------------------------------------
(* Bounds of the model *)

\* main-loop iterations (wargames) / accepted actions (treasureisland)
MaxTurns == 9
\* input() calls that fail with EOFError in one session
MaxFaults == 1

----------------------------------------------------------------------------
(* Program constants *)

\* treasureisland.py:148  if len(messages) > 13
TI_threshold == 13
\* treasureisland.py:149  messages[-12:]
TI_keep == 12
\* wargames.py:85  if len(self.messages) > 16
WG_threshold == 16
\* wargames.py:86  self.messages[-15:]
WG_keep == 15
\* wargames.py:106
max_retries == 3
\* treasureisland.py:106  [:500]
input_limit == 500

----------------------------------------------------------------------------
(* Texts *)

UPPER == <<"A","B","C","D","E","F","G","H","I","J","K","L","M","N","O","P","Q","R","S","T","U","V","W","X","Y","Z">>
LOWER == <<"a","b","c","d","e","f","g","h","i","j","k","l","m","n","o","p","q","r","s","t","u","v","w","x","y","z">>

TI_end_keywords ==
    { <<"g","a","m","e"," ","o","v","e","r">>,
      <<"a","d","v","e","n","t","u","r","e"," ","e","n","d","e","d">>,
      <<"t","h","e"," ","e","n","d">>,
      <<"y","o","u"," ","h","a","v","e"," ","d","i","e","d">>,
      <<"t","r","e","a","s","u","r","e"," ","f","o","u","n","d">> }
WG_end_keywords ==
    { <<"g","a","m","e"," ","o","v","e","r">>,
      <<"s","i","m","u","l","a","t","i","o","n"," ","e","n","d","e","d">>,
      <<"c","r","i","s","i","s"," ","r","e","s","o","l","v","e","d">>,
      <<"w","a","r"," ","e","n","d","e","d">>,
      <<"s","c","e","n","a","r","i","o"," ","c","o","m","p","l","e","t","e">> }
quit_commands ==
    { <<"q","u","i","t">>,
      <<"e","x","i","t">>,
      <<"e","n","d">> }
\* the help command misspelt
help_command_misspelt == <<"h","l","p">>
help_command == <<"h","e","l","p">>
stats_command == <<"s","t","a","t","s">>

TI_error_prefix == <<"U+26A0","U+FE0F">>
WG_error_prefix == <<"E","R","R","O","R",":">>
TI_rate_limit_text == <<"U+26A0","U+FE0F"," ","R","a","t","e"," ","l","i","m","i","t"," ","e","x","c","e","e","d","e","d",".">>
TI_authentication_text == <<"U+26A0","U+FE0F"," ","A","u","t","h","e","n","t","i","c","a","t","i","o","n"," ","e","r","r","o","r",".">>
\* str(e), the text of the exception, is the character e
TI_other_text == <<"U+26A0","U+FE0F"," ","E","r","r","o","r"," ","g","e","t","t","i","n","g"," ","A","I"," ","r","e","s","p","o","n","s","e",":"," ","e">>
WG_rate_limit_text == <<"E","R","R","O","R",":"," ","R","a","t","e"," ","l","i","m","i","t"," ","e","x","c","e","e","d","e","d",".">>
WG_connection_text == <<"E","R","R","O","R",":"," ","U","n","a","b","l","e"," ","t","o"," ","c","o","n","n","e","c","t"," ","t","o"," ","O","p","e","n","A","I"," ","A","P","I",".">>
WG_authentication_text == <<"E","R","R","O","R",":"," ","I","n","v","a","l","i","d"," ","A","P","I"," ","k","e","y",".">>
WG_other_text == <<"E","R","R","O","R",":"," ","U","n","a","b","l","e"," ","t","o"," ","g","e","t"," ","A","I"," ","r","e","s","p","o","n","s","e",":"," ","e">>
WG_max_retries_text == <<"E","R","R","O","R",":"," ","M","a","x","i","m","u","m"," ","r","e","t","r","i","e","s"," ","e","x","c","e","e","d","e","d",".">>

TI_game_instructions == <<"T","r","e","a","s","u","r","e"," ","I","s","l","a","n","d">>
WG_game_instructions == <<"W","a","r","G","a","m","e","s">>
TI_begin_text == <<"B","e","g","i","n">>
WG_random_scenario_text == <<"G","e","n","e","r","a","t","e">>
WG_continue_text == <<"C","o","n","t","i","n","u","e">>

(* What the environment supplies: texts of the service, lines typed by the user *)
PlainReply == <<"O","n","w","a","r","d">>
ChestReply == <<"Y","o","u"," ","f","i","n","d"," ","a"," ","c","h","e","s","t","."," ","G","A","M","E"," ","O","V","E","R",".">>
TaggedReply == <<"E","R","R","O","R",":"," ","G","A","M","E"," ","O","V","E","R">>
Replies == { PlainReply, ChestReply, TaggedReply }

RawInputs ==
    { <<"g","o"," ">>,
      <<>>,
      <<" ">>,
      <<"Q","U","I","T">>,
      <<"e","x","i","t">>,
      <<"E","n","d">>,
      <<"H","e","l","p">>,
      <<"s","t","a","t","s">> }
\* the lines typed at the prompts of wargames in the long sessions of Spec
WG_RawInputs ==
    { <<"g","o"," ">>,
      <<>>,
      <<"Q","U","I","T">>,
      <<"e","x","i","t">>,
      <<"E","n","d">> }
WG_ScenarioInputs ==
    { <<"g","o"," ">>,
      <<>> }

----------------------------------------------------------------------------
(* Python's string and list operations *)

\* str.lower of one character
LowerChar(c) ==
    IF \E i \in 1..Len(UPPER) : UPPER[i] = c
    THEN LOWER[CHOOSE i \in 1..Len(UPPER) : UPPER[i] = c]
    ELSE c

\* s.lower()
lower(s) == [i \in 1..Len(s) |-> LowerChar(s[i])]

\* s.strip()
strip(s) ==
    LET solid == { i \in 1..Len(s) : s[i] # " " }
    IN  IF solid = {} THEN << >>
        ELSE SubSeq(s, CHOOSE i \in solid : \A j \in solid : i <= j,
                       CHOOSE i \in solid : \A j \in solid : j <= i)

\* s.startswith(prefix)
startswith(s, prefix) ==
    /\ Len(s) >= Len(prefix)
    /\ SubSeq(s, 1, Len(prefix)) = prefix

\* keyword in s
contains(s, keyword) ==
    \E i \in 1..(Len(s) - Len(keyword) + 1) :
        SubSeq(s, i, i + Len(keyword) - 1) = keyword

\* s[:n]
Prefix(s, n) == SubSeq(s, 1, IF Len(s) < n THEN Len(s) ELSE n)

\* s[-n:]
Suffix(s, n) == SubSeq(s, IF Len(s) > n THEN Len(s) - n + 1 ELSE 1, Len(s))

\* the value None
None == << "None-object" >>

\* truth value of a text or None
Truthy(x) == x # None /\ x # << >>

\* {"role": role, "content": content}
Message(role, content) == [role |-> role, content |-> content]

----------------------------------------------------------------------------
(* The remote completion service: every attempt ends in one of these *)

Failures == { "rate_limit", "connection", "authentication", "other" }

Outcomes ==
    { [kind |-> "ok", text |-> t] : t \in Replies }
        \cup { [kind |-> k, text |-> << >>] : k \in Failures }

\* what one attempt makes get_ai_response do
Return(text) == [do |-> "return", text |-> text, wait |-> 0]
Retry(wait) == [do |-> "retry", text |-> << >>, wait |-> wait]

----------------------------------------------------------------------------
(* Initial state: the process has been started, nothing has run yet *)

Init ==
    /\ game \in { "treasureisland", "wargames" }
    /\ api_key \in BOOLEAN
    /\ pc = "start"
    /\ messages = << >>
    /\ turns = 0
    /\ sent = << >>
    /\ attempt = 0
    /\ outcomes = << >>
    /\ waits = << >>
    /\ ai_response = << >>
    /\ output = "nothing"
    /\ exit = "none"
    /\ faults = 0

\* get_ai_response is entered with the transcript m
Invoke(m) ==
    /\ sent' = m
    /\ attempt' = 0
    /\ outcomes' = << >>
    /\ waits' = << >>
    /\ ai_response' = << >>
    /\ pc' = "request"

\* the frame of get_ai_response is gone once main has used its result
Forget ==
    /\ sent' = << >>
    /\ attempt' = 0
    /\ outcomes' = << >>
    /\ waits' = << >>

\* the process ends
Stop(how, printed) ==
    /\ pc' = "done"
    /\ exit' = how
    /\ output' = printed

----------------------------------------------------------------------------
(* treasureisland.py *)

\* main, up to the while loop
TI_main_start ==
    /\ game = "treasureisland"
    /\ pc = "start"
    /\ IF ~api_key
       THEN /\ Stop("returned", "no_api_key_warning")
            /\ UNCHANGED messages
       ELSE /\ messages' = << Message("system", TI_game_instructions),
                              Message("user", TI_begin_text) >>
            /\ pc' = "loop"
            /\ output' = "welcome"
            /\ UNCHANGED exit
    /\ UNCHANGED << game, api_key, turns, sent, attempt, outcomes, waits,
                    ai_response, faults >>

\* top of the while loop: get_ai_response(messages) is called
TI_loop ==
    /\ game = "treasureisland"
    /\ pc = "loop"
    /\ Invoke(messages)
    /\ output' = "loading"
    /\ UNCHANGED << game, api_key, messages, turns, exit, faults >>

\* get_ai_response: what is returned for each outcome of the one attempt
TI_on_outcome(o) ==
    CASE o.kind = "ok" -> Return(o.text)
      [] o.kind = "rate_limit" -> Return(TI_rate_limit_text)
      [] o.kind = "authentication" -> Return(TI_authentication_text)
      [] OTHER -> Return(TI_other_text)

\* get_ai_response: the remote call and the return
TI_get_ai_response(o) ==
    /\ game = "treasureisland"
    /\ pc = "request"
    /\ outcomes' = Append(outcomes, o)
    /\ ai_response' = TI_on_outcome(o).text
    /\ pc' = "returned"
    /\ UNCHANGED << game, api_key, messages, turns, sent, attempt, waits,
                    output, exit, faults >>

\* TI_trim with the history never cut
TI_trim_never(m) == m

\* TI_trim with the slice one message too long
TI_trim_one_more(m) ==
    IF Len(m) > TI_threshold
    THEN << m[1] >> \o Suffix(m, TI_keep + 1)
    ELSE m

\* the truncation of the history inside the loop
TI_trim(m) ==
    IF Len(m) > TI_threshold
    THEN << m[1] >> \o Suffix(m, TI_keep)
    ELSE m

\* any(keyword in ai_response.lower() for keyword in [...])
TI_is_terminal(text) ==
    \E keyword \in TI_end_keywords : contains(lower(text), keyword)

\* ai_response.startswith of the warning sign
TI_is_error(text) == startswith(text, TI_error_prefix)

\* main from the return of get_ai_response to the next suspension point
TI_render ==
    /\ game = "treasureisland"
    /\ pc = "returned"
    /\ IF TI_is_error(ai_response)
       THEN /\ Stop("returned", "error")
            /\ UNCHANGED messages
       ELSE /\ messages' = TI_trim(Append(messages, Message("assistant", ai_response)))
            /\ IF TI_is_terminal(ai_response)
               THEN Stop("returned", "farewell")
               ELSE /\ pc' = "prompt"
                    /\ output' = "turn_prompt"
                    /\ UNCHANGED exit
    /\ Forget
    /\ UNCHANGED << game, api_key, turns, ai_response, faults >>

\* validate_user_input
TI_validate_user_input(user_input) ==
    IF user_input = << >> \/ strip(user_input) = << >>
    THEN None
    ELSE Prefix(strip(user_input), input_limit)

\* the inner while loop: one line read by input()
TI_input(raw) ==
    /\ game = "treasureisland"
    /\ pc = "prompt"
    /\ LET user_action == strip(raw)
           validated_input == TI_validate_user_input(user_action)
       IN  IF lower(user_action) \in quit_commands
           THEN /\ Stop("returned", "abandoned")
                /\ UNCHANGED << messages, turns >>
           ELSE IF lower(user_action) = help_command
           THEN /\ output' = "help"
                /\ UNCHANGED << pc, exit, messages, turns >>
           ELSE IF lower(user_action) = stats_command
           THEN /\ output' = "stats"
                /\ UNCHANGED << pc, exit, messages, turns >>
           ELSE IF Truthy(validated_input)
           THEN /\ turns < MaxTurns
                /\ turns' = turns + 1
                /\ messages' = Append(messages, Message("user", validated_input))
                /\ pc' = "loop"
                /\ UNCHANGED << output, exit >>
           ELSE /\ output' = "invalid_action"
                /\ UNCHANGED << pc, exit, messages, turns >>
    /\ UNCHANGED << game, api_key, sent, attempt, outcomes, waits,
                    ai_response, faults >>

\* input() raises EOFError: except Exception, continue
TI_input_fails ==
    /\ game = "treasureisland"
    /\ pc = "prompt"
    /\ faults < MaxFaults
    /\ faults' = faults + 1
    /\ output' = "unexpected_error"
    /\ pc' = "loop"
    /\ UNCHANGED << game, api_key, messages, turns, sent, attempt, outcomes,
                    waits, ai_response, exit >>

\* Ctrl-C at a suspension point: except KeyboardInterrupt, break
TI_KeyboardInterrupt ==
    /\ game = "treasureisland"
    /\ pc \in { "request", "prompt" }
    /\ Stop("returned", "interrupted")
    /\ Forget
    /\ UNCHANGED << game, api_key, messages, turns, ai_response, faults >>

----------------------------------------------------------------------------
(* wargames.py *)

\* module initialisation: the API key check, then asyncio.run(main())
WG_module_init ==
    /\ game = "wargames"
    /\ pc = "start"
    /\ IF ~api_key
       THEN Stop("sys_exit_1", "no_api_key_error")
       ELSE /\ pc' = "scenario"
            /\ output' = "welcome"
            /\ UNCHANGED exit
    /\ UNCHANGED << game, api_key, messages, turns, sent, attempt, outcomes,
                    waits, ai_response, faults >>

\* main, from the scenario prompt up to the while loop
WG_main_scenario(raw) ==
    /\ game = "wargames"
    /\ pc = "scenario"
    /\ LET stripped == strip(raw)
           user_scenario == IF stripped = << >> THEN WG_random_scenario_text
                                                ELSE stripped
       IN  messages' = << Message("system", WG_game_instructions),
                          Message("user", user_scenario) >>
    /\ pc' = "loop"
    /\ output' = "initializing"
    /\ UNCHANGED << game, api_key, turns, sent, attempt, outcomes, waits,
                    ai_response, exit, faults >>

\* get_messages_for_api without the system prompt in front of the slice
WG_get_messages_for_api_no_system(m) ==
    IF Len(m) > WG_threshold
    THEN Suffix(m, WG_keep + 1)
    ELSE m

\* GameState.get_messages_for_api
WG_get_messages_for_api(m) ==
    IF Len(m) > WG_threshold
    THEN << m[1] >> \o Suffix(m, WG_keep)
    ELSE m

\* top of the while loop: the turn number is incremented and
\* get_ai_response(game_state.get_messages_for_api()) is called
WG_loop ==
    /\ game = "wargames"
    /\ pc = "loop"
    /\ turns < MaxTurns
    /\ turns' = turns + 1
    /\ Invoke(WG_get_messages_for_api(messages))
    /\ UNCHANGED << game, api_key, messages, output, exit, faults >>

\* wait_time without the backoff
WG_wait_time_constant(a) == 1

\* wait_time = 2 ** attempt
WG_wait_time(a) == 2 ^ a

\* except openai.RateLimitError
WG_on_rate_limit(a) ==
    IF a < max_retries - 1
    THEN Retry(WG_wait_time(a))
    ELSE Return(WG_rate_limit_text)

\* the connection failure reported without the ERROR: tag
WG_on_connection_untagged(a) ==
    Return(Suffix(WG_connection_text, Len(WG_connection_text) - Len(WG_error_prefix) - 1))

\* except openai.APIConnectionError
WG_on_connection(a) == Return(WG_connection_text)

\* the authentication failure handled like any other exception
WG_on_authentication_retried(a) ==
    IF a < max_retries - 1
    THEN Retry(1)
    ELSE Return(WG_authentication_text)

\* except openai.AuthenticationError
WG_on_authentication(a) == Return(WG_authentication_text)

\* except Exception as e
WG_on_exception(a) ==
    IF a < max_retries - 1
    THEN Retry(1)
    ELSE Return(WG_other_text)

\* get_ai_response: the body of the for loop for one outcome of the call
WG_on_outcome(o, a) ==
    CASE o.kind = "ok" -> Return(o.text)
      [] o.kind = "rate_limit" -> WG_on_rate_limit(a)
      [] o.kind = "connection" -> WG_on_connection(a)
      [] o.kind = "authentication" -> WG_on_authentication(a)
      [] OTHER -> WG_on_exception(a)

\* get_ai_response: one pass of for attempt in range(max_retries)
WG_get_ai_response(o) ==
    /\ game = "wargames"
    /\ pc = "request"
    /\ outcomes' = Append(outcomes, o)
    /\ LET step == WG_on_outcome(o, attempt)
       IN  IF step.do = "return"
           THEN /\ ai_response' = step.text
                /\ pc' = "returned"
                /\ UNCHANGED << attempt, waits >>
           ELSE /\ waits' = Append(waits, step.wait)
                /\ attempt' = attempt + 1
                /\ IF attempt + 1 < max_retries
                   THEN UNCHANGED << pc, ai_response >>
                   ELSE /\ ai_response' = WG_max_retries_text
                        /\ pc' = "returned"
    /\ UNCHANGED << game, api_key, messages, turns, sent, output, exit, faults >>

\* any(keyword in ai_response.lower() for keyword in end_keywords)
WG_is_terminal(text) ==
    \E keyword \in WG_end_keywords : contains(lower(text), keyword)

\* the error test on a result that is never taken for an error
WG_is_error_never(text) == FALSE

\* ai_response.startswith("ERROR:")
WG_is_error(text) == startswith(text, WG_error_prefix)

\* main from the return of get_ai_response to the next suspension point
WG_render ==
    /\ game = "wargames"
    /\ pc = "returned"
    /\ IF WG_is_error(ai_response)
       THEN /\ output' = "error_try_again"
            /\ pc' = "loop"
            /\ UNCHANGED << messages, exit >>
       ELSE /\ messages' = Append(messages, Message("assistant", ai_response))
            /\ IF WG_is_terminal(ai_response)
               THEN Stop("returned", "terminated")
               ELSE /\ pc' = "prompt"
                    /\ output' = "turn_prompt"
                    /\ UNCHANGED exit
    /\ Forget
    /\ UNCHANGED << game, api_key, turns, ai_response, faults >>

\* one line read by input() at the action prompt
WG_input(raw) ==
    /\ game = "wargames"
    /\ pc = "prompt"
    /\ LET stripped == strip(raw)
           user_input == IF stripped = << >> THEN WG_continue_text ELSE stripped
       IN  IF lower(stripped) \in quit_commands
           THEN /\ Stop("returned", "aborted")
                /\ UNCHANGED messages
           ELSE /\ messages' = Append(messages, Message("user", user_input))
                /\ pc' = "loop"
                /\ UNCHANGED << output, exit >>
    /\ UNCHANGED << game, api_key, turns, sent, attempt, outcomes, waits,
                    ai_response, faults >>

\* input() raises EOFError: nothing catches it
WG_input_fails ==
    /\ game = "wargames"
    /\ pc \in { "scenario", "prompt" }
    /\ faults < MaxFaults
    /\ faults' = faults + 1
    /\ Stop("uncaught_EOFError", "traceback")
    /\ UNCHANGED << game, api_key, messages, turns, sent, attempt, outcomes,
                    waits, ai_response >>

\* Ctrl-C at a suspension point: nothing catches it
WG_KeyboardInterrupt ==
    /\ game = "wargames"
    /\ pc \in { "scenario", "request", "prompt" }
    /\ Stop("uncaught_KeyboardInterrupt", "traceback")
    /\ Forget
    /\ UNCHANGED << game, api_key, messages, turns, ai_response, faults >>

----------------------------------------------------------------------------
(* The sessions *)

Next ==
    \/ TI_main_start
    \/ TI_loop
    \/ \E o \in Outcomes : TI_get_ai_response(o)
    \/ TI_render
    \/ \E raw \in RawInputs : TI_input(raw)
    \/ TI_input_fails
    \/ TI_KeyboardInterrupt
    \/ WG_module_init
    \/ \E raw \in WG_ScenarioInputs : WG_main_scenario(raw)
    \/ WG_loop
    \/ \E o \in Outcomes : WG_get_ai_response(o)
    \/ WG_render
    \/ \E raw \in WG_RawInputs : WG_input(raw)
    \/ WG_input_fails
    \/ WG_KeyboardInterrupt

Spec == Init /\ [][Next]_vars
----------------------------------------------------------------------------
(* The truncation operations on their own: transcripts of every length up  *)
(* to MaxLen, all messages different, are built and then truncated.        *)

\* longest transcript handed to the truncation operations
MaxLen == 18

Digit == << "0", "1", "2", "3", "4", "5", "6", "7", "8", "9" >>

\* the decimal digits of i, for i below 100
NumText(i) == << Digit[(i \div 10) + 1], Digit[(i % 10) + 1] >>

InitTrim ==
    /\ game \in { "treasureisland", "wargames" }
    /\ api_key = TRUE
    /\ pc = "trim_input"
    /\ messages = << >>
    /\ turns = 0
    /\ sent = << >>
    /\ attempt = 0
    /\ outcomes = << >>
    /\ waits = << >>
    /\ ai_response = << >>
    /\ output = "nothing"
    /\ exit = "none"
    /\ faults = 0

\* one more message, numbered by its position; the first has any role
TrimExtend(role) ==
    /\ pc = "trim_input"
    /\ Len(messages) < MaxLen
    /\ Len(messages) > 0 =>
           role = (IF messages[Len(messages)].role = "user" THEN "assistant" ELSE "user")
    /\ messages' = Append(messages, Message(role, NumText(Len(messages) + 1)))
    /\ UNCHANGED << game, api_key, pc, turns, sent, attempt, outcomes, waits,
                    ai_response, output, exit, faults >>

\* treasureisland: the truncation of lines 148-149 is applied
TrimApplyTI ==
    /\ game = "treasureisland"
    /\ pc = "trim_input"
    /\ sent' = TI_trim(messages)
    /\ pc' = "trim_result"
    /\ UNCHANGED << game, api_key, messages, turns, attempt, outcomes, waits,
                    ai_response, output, exit, faults >>

\* wargames: get_messages_for_api is applied
TrimApplyWG ==
    /\ game = "wargames"
    /\ pc = "trim_input"
    /\ sent' = WG_get_messages_for_api(messages)
    /\ pc' = "trim_result"
    /\ UNCHANGED << game, api_key, messages, turns, attempt, outcomes, waits,
                    ai_response, output, exit, faults >>

NextTrim ==
    \/ \E role \in { "system", "user", "assistant" } : TrimExtend(role)
    \/ TrimApplyTI
    \/ TrimApplyWG

SpecTrim == InitTrim /\ [][NextTrim]_vars

----------------------------------------------------------------------------
(* Short sessions with every kind of line typed at the prompts: the        *)
(* reserved words in several letter cases, and a line longer than the      *)
(* input limit.                                                            *)

\* main-loop iterations (wargames) / accepted actions (treasureisland)
\* of a short session
ShortTurns == 2

\* a line of input_limit + 1 characters
LongLine == [i \in 1..(input_limit + 1) |-> "x"]

ShortInputs == RawInputs \cup { LongLine }

ShortScenarioInputs == WG_ScenarioInputs \cup { LongLine }

NextShort ==
    \/ TI_main_start
    \/ TI_loop
    \/ \E o \in Outcomes : TI_get_ai_response(o)
    \/ TI_render
    \/ \E raw \in ShortInputs : (turns < ShortTurns /\ TI_input(raw))
    \/ TI_input_fails
    \/ TI_KeyboardInterrupt
    \/ WG_module_init
    \/ \E raw \in ShortScenarioInputs : WG_main_scenario(raw)
    \/ (turns < ShortTurns /\ WG_loop)
    \/ \E o \in Outcomes : WG_get_ai_response(o)
    \/ WG_render
    \/ \E raw \in ShortInputs : WG_input(raw)
    \/ WG_input_fails
    \/ WG_KeyboardInterrupt

SpecShort == Init /\ [][NextShort]_vars

----------------------------------------------------------------------------
(* Vocabulary of the properties *)

TI == game = "treasureisland"
WG == game = "wargames"

Threshold == IF TI THEN TI_threshold ELSE WG_threshold
Keep == IF TI THEN TI_keep ELSE WG_keep

SystemMessage ==
    Message("system", IF TI THEN TI_game_instructions ELSE WG_game_instructions)

\* get_ai_response is running or has just returned
InCall == pc \in { "request", "returned" }

\* the transcript exists
Initialised ==
    \/ pc \in { "loop", "request", "returned", "prompt" }
    \/ pc = "done" /\ messages # << >>

IsError(text) == IF TI THEN TI_is_error(text) ELSE WG_is_error(text)
IsTerminal(text) == IF TI THEN TI_is_terminal(text) ELSE WG_is_terminal(text)

Kinds == [i \in 1..Len(outcomes) |-> outcomes[i].kind]
LastKind == IF outcomes = << >> THEN "none" ELSE outcomes[Len(outcomes)].kind

StrictlyIncreasing(s) == \A i \in 1..(Len(s) - 1) : s[i] < s[i + 1]

----------------------------------------------------------------------------
(* Properties *)

\* C1: once the transcript is initialised, the first stored message and the
\* first message of every transcript passed to get_ai_response is the
\* system-instructions message, in both front-ends.
C1_SystemFirst ==
    /\ Initialised => (Len(messages) >= 1 /\ messages[1] = SystemMessage)
    /\ InCall => (Len(sent) >= 1 /\ sent[1] = SystemMessage)

\* a call of wargames on a view that was cut down to system + 15
C1_Witness ==
    /\ WG /\ pc = "request"
    /\ Len(messages) > WG_threshold
    /\ Len(sent) = 1 + WG_keep
    /\ sent[1] = SystemMessage

\* C2 as stated: after 3 consecutive rate-limit failures get_ai_response of
\* wargames ends with the successful text, having slept 3 times for
\* strictly increasing durations.
C2_ThreeRetriesThenSuccess ==
    (WG /\ pc = "returned" /\ Len(outcomes) >= 3
        /\ \A i \in 1..3 : outcomes[i].kind = "rate_limit")
    => /\ Len(outcomes) = 4
       /\ LastKind = "ok"
       /\ ai_response = outcomes[4].text
       /\ Len(waits) = 3
       /\ StrictlyIncreasing(waits)

\* C2 amended: 2 consecutive rate-limit failures followed by a success give
\* the successful text after exactly 2 sleeps of strictly increasing
\* durations; a third consecutive rate-limit failure ends the invocation
\* with the rate-limit error result, still after 2 sleeps.
C2_TwoRetriesThenSuccess ==
    /\ (WG /\ pc = "returned" /\ Kinds = << "rate_limit", "rate_limit", "ok" >>)
       => /\ ai_response = outcomes[3].text
          /\ Len(waits) = 2
          /\ StrictlyIncreasing(waits)
    /\ (WG /\ pc = "returned" /\ Kinds = << "rate_limit", "rate_limit", "rate_limit" >>)
       => /\ ai_response = WG_rate_limit_text
          /\ Len(waits) = 2

\* two rate-limit failures, then the service's text is returned
C2_Witness ==
    /\ WG /\ pc = "returned"
    /\ Kinds = << "rate_limit", "rate_limit", "ok" >>
    /\ ai_response = PlainReply
    /\ waits = << 1, 2 >>

\* C3: when get_ai_response has returned after an authentication failure,
\* the next step of the session ends it (no further remote call).
C3_AuthenticationEndsSession ==
    [][(pc = "returned" /\ LastKind = "authentication") => pc' = "done"]_vars

\* C4: in wargames, after get_ai_response gave up on its third failed
\* attempt, the session ends or reads the user's action next; it does not
\* go back to the top of the loop for another remote call.
C4_InputBeforeNextCall ==
    [][(WG /\ pc = "returned" /\ Len(outcomes) = max_retries
           /\ LastKind \in { "rate_limit", "other" })
       => pc' \in { "prompt", "done" }]_vars

\* C5: every transcript passed to get_ai_response has at most 1 + K
\* messages (K = 12 in treasureisland, 15 in wargames).
C5_SentWithinWindow == InCall => Len(sent) <= 1 + Keep

IsReferenceTrim(t, r, threshold, k) ==
    IF Len(t) > threshold
    THEN /\ Len(r) = 1 + k
         /\ r[1] = t[1]
         /\ \A i \in 1..k : r[1 + i] = t[Len(t) - k + i]
    ELSE r = t

\* C7: each front-end's truncation gives the first message followed by the
\* last K messages in order when the transcript is longer than the
\* threshold, and the transcript itself otherwise.
C7_TrimIsReference ==
    pc = "trim_result" => IsReferenceTrim(messages, sent, Threshold, Keep)

\* a transcript one message above the threshold has been cut to 1 + K
C7_Witness ==
    /\ pc = "trim_result"
    /\ Len(messages) = Threshold + 1
    /\ Len(sent) = 1 + Keep
    /\ sent # messages

\* C8: an authentication failure is the last attempt of its invocation:
\* get_ai_response has returned the tagged error result, and every sleep
\* of the invocation belongs to an earlier failure.
C8_AuthenticationReturnsAtOnce ==
    \A i \in 1..Len(outcomes) :
        outcomes[i].kind = "authentication"
        => /\ i = Len(outcomes)
           /\ pc = "returned"
           /\ IsError(ai_response)
           /\ Len(waits) = i - 1

\* wargames: an authentication failure on the third attempt, after two
\* failures that were retried
C8_Witness ==
    /\ WG /\ pc = "returned"
    /\ Len(outcomes) = 3
    /\ LastKind = "authentication"
    /\ Len(waits) = 2
    /\ ai_response = WG_authentication_text

\* C9: an invocation of get_ai_response of wargames makes at most 3 remote
\* call attempts, every failed attempt is either retried or turned into the
\* return value, and what it returns is the service's text or a text that
\* starts with ERROR:
C9_BoundedAttemptsTaggedResult ==
    WG =>
      /\ Len(outcomes) <= max_retries
      /\ outcomes # << >> => (InCall /\ exit = "none")
      /\ pc = "request" => (Len(outcomes) < max_retries /\ Len(waits) = Len(outcomes))
      /\ pc = "returned" =>
            /\ outcomes # << >>
            /\ \/ LastKind = "ok" /\ ai_response = outcomes[Len(outcomes)].text
               \/ LastKind # "ok" /\ WG_is_error(ai_response)

\* three failed attempts, the last one a connection failure
C9_Witness ==
    /\ WG /\ pc = "returned"
    /\ Kinds = << "other", "rate_limit", "connection" >>
    /\ ai_response = WG_connection_text

\* C10: when the service's text contains an end-of-session phrase, the
\* step after the return of get_ai_response prints it and ends the session.
C10_EndPhraseEndsSession ==
    [][(pc = "returned" /\ LastKind = "ok" /\ IsTerminal(ai_response))
       => (pc' = "done" /\ exit' = "returned")]_vars

\* number of assistant messages of the stored transcript
Replied == Cardinality({ i \in 1..Len(messages) : messages[i].role = "assistant" })

\* C11: the turn counter never decreases and counts the completed
\* exchanges: treasureisland changes it only by adding 1 in the step that
\* appends the accepted user action, and a wargames iteration that ends in
\* an error result leaves it at the number of replies received so far.
C11_TurnsCountExchanges ==
    [][/\ turns' >= turns
       /\ (TI /\ turns' # turns) =>
             /\ turns' = turns + 1
             /\ Len(messages') = Len(messages) + 1
             /\ messages'[Len(messages')].role = "user"
       /\ (WG /\ pc = "returned" /\ WG_is_error(ai_response)) =>
             turns' = Replied']_vars

\* C12: no user message of the stored transcript is longer than the input
\* limit of 500 characters.
C12_UserMessagesWithinLimit ==
    \A i \in 1..Len(messages) :
        messages[i].role = "user" => Len(messages[i].content) <= input_limit

\* the five reserved words
ReservedWords ==
    { <<"q","u","i","t">>, <<"e","x","i","t">>, <<"e","n","d">>,
      <<"h","e","l","p">>, <<"s","t","a","t","s">> }

\* the step taken from the action prompt appended a user message whose
\* text, in lower case, is one of the words
AppendsWord(words) ==
    /\ Len(messages') = Len(messages) + 1
    /\ messages'[Len(messages')].role = "user"
    /\ lower(messages'[Len(messages')].content) \in words

C14_NoUncaughtFailure ==
    /\ exit # "uncaught_EOFError"
    /\ faults > 0 => output # "traceback"

\* C15: an interrupt never ends the process with an uncaught
\* KeyboardInterrupt; the session ends by returning from main.
C15_InterruptEndsCleanly ==
    exit # "uncaught_KeyboardInterrupt"

\* C16: without the API key the process makes no remote call, reads no
\* input, and ends with a message about the key and a non-zero status.
C16_NoKeyExitsNonZero ==
    ~api_key =>
       /\ pc \in { "start", "done" }
       /\ messages = << >> /\ outcomes = << >> /\ sent = << >>
       /\ pc = "done" =>
             /\ exit = "sys_exit_1"
             /\ output \in { "no_api_key_warning", "no_api_key_error" }

\* the messages after the first alternate user, assistant, user, ...
Alternates(m) ==
    \A i \in 2..Len(m) : m[i].role = (IF i % 2 = 0 THEN "user" ELSE "assistant")

\* C17: a transcript passed to the remote call ends in a user message, and
\* the stored messages after the system message alternate user, assistant.
C17_UserLastAndAlternating ==
    /\ InCall => (Len(sent) >= 2 /\ sent[Len(sent)].role = "user")
    /\ Alternates(messages)

\* the text carries the error tag of the front-end
HasErrorTag(text) ==
    startswith(text, IF TI THEN TI_error_prefix ELSE WG_error_prefix)

\* C18: the step that handles an error-tagged result leaves the stored
\* transcript as it is, and no assistant message, stored or passed to the
\* remote call, holds an error-tagged text.
C18_ErrorResultNotStored ==
    [][/\ (pc = "returned" /\ HasErrorTag(ai_response)) => messages' = messages
       /\ \A i \in 1..Len(messages') :
             messages'[i].role = "assistant" => ~HasErrorTag(messages'[i].content)
       /\ \A i \in 1..Len(sent') :
             sent'[i].role = "assistant" => ~HasErrorTag(sent'[i].content)]_vars

\* wargames is back at the top of its loop after an error result that
\* followed a completed exchange, the transcript still ending in the
\* user's message
C18_Witness ==
    /\ WG /\ pc = "loop"
    /\ output = "error_try_again"
    /\ HasErrorTag(ai_response)
    /\ Len(messages) = 4
    /\ messages[4].role = "user"

====
